---- MODULE Spec2Model ----
(***************************************************************************)
(* A model of the STL bounding-box package (stl.go).                       *)
(*                                                                         *)
(* CalculateBoundingBox sniffs the first 80 bytes of a reader, selects the *)
(* ASCII or the binary decoder, and the decoder folds every triangle it    *)
(* decodes into a running min/max box.                                     *)
(*                                                                         *)
(* Floating point.  A float64 is modelled as an integer; the float32       *)
(* values are the even integers of -MaxFloat32..MaxFloat32, so that a      *)
(* float64 may lie between two float32 values and the conversion           *)
(* float32(x) rounds (to nearest, ties to the even mantissa) and overflows *)
(* to an infinity.  PosInf, NegInf and NaN are the IEEE specials; every    *)
(* ordered comparison with NaN is false.                                   *)
(*                                                                         *)
(* The reader.  The input is produced by the environment as the program    *)
(* reads it: a read draws what the stream holds next from a bounded set.   *)
(* The bytes the sniffer has read are kept, as text, in headerStr, and the *)
(* decoders read headerStr first and the rest of the reader after it       *)
(* (io.MultiReader).                                                       *)
(***************************************************************************)
EXTENDS Integers, Sequences, FiniteSets, TLC

VARIABLES
    pc,               \* the statement the call is at
    headerStr,        \* sniffed bytes the decoder has not read yet (segments)
    r,                \* the caller's reader: [rest, state, off]; off counts
                      \* the bytes that io.ReadFull has taken from it
    format,           \* the decoder CalculateBoundingBox selected
    numTriangles,     \* parseBinary: the declared triangle count
    i,                \* parseBinary: the loop index
    bbox,             \* the accumulator of the running decoder
    currentTriangle,  \* parseASCII: the vertices of the facet being read
    vertexIndex,      \* parseASCII
    inFacet,          \* parseASCII
    result,           \* what CalculateBoundingBox returned
    sniffed,          \* history: what the sniffer read, [n, text, solid]
    folded,           \* history: the vertices folded, as float32 triples
    nfold,            \* history: the number of triangles folded
    nlines,           \* history: the number of lines the stream has produced
    line,             \* parseASCII: the fields of the line of this pass
                      \* of the loop, and the number of lines scanned
    pure              \* the whole-input runs of SpecPure

vars == <<pc, headerStr, r, format, numTriangles, i, bbox, currentTriangle,
          vertexIndex, inFacet, result, sniffed, folded, nfold, nlines, line, pure>>

----------------------------------------------------------------------------
(* Floating point *)

\* math.MaxFloat32, in model units (its half is odd: the largest mantissa).
MaxFloat32 == 10

PosInf == MaxFloat32 + 4
NegInf == -PosInf
NaN == PosInf + 2

\* The float32 values, and the float64 values (a finer grid, a wider range).
Float32 == {f \in -MaxFloat32..MaxFloat32 : f % 2 = 0} \cup {PosInf, NegInf, NaN}
Float64 == (NegInf..PosInf) \cup {NaN}

IsNaN(a) == a = NaN
IsInf(a) == a = PosInf \/ a = NegInf
IsFinite(a) == ~IsNaN(a) /\ ~IsInf(a)

\* The ordered comparisons of Go (IEEE 754): false when an operand is NaN.
Lt(a, b) == ~IsNaN(a) /\ ~IsNaN(b) /\ a < b
Gt(a, b) == Lt(b, a)
Le(a, b) == ~IsNaN(a) /\ ~IsNaN(b) /\ a <= b
\* Go's ==: NaN is not equal to itself.
Eq(a, b) == ~IsNaN(a) /\ ~IsNaN(b) /\ a = b

\* Round a finite value to the float32 grid: to nearest, ties to the even
\* mantissa.
RoundToEven(d) ==
    IF d % 2 = 0 THEN d
    ELSE IF ((d - 1) \div 2) % 2 = 0 THEN d - 1 ELSE d + 1

\* A finite exact result, as the float32 it is stored as.
Overflow32(v) ==
    IF v > MaxFloat32 THEN PosInf
    ELSE IF v < -MaxFloat32 THEN NegInf
    ELSE v

\* float32(d) of a float64 d.
ToFloat32(d) ==
    IF IsNaN(d) \/ IsInf(d) THEN d ELSE Overflow32(RoundToEven(d))

\* float64(f) of a float32 f: exact.
ToFloat64(f) == f

\* float32 arithmetic.
Neg32(a) == IF IsNaN(a) THEN NaN ELSE -a

Add32(a, b) ==
    IF IsNaN(a) \/ IsNaN(b) THEN NaN
    ELSE IF IsInf(a) /\ IsInf(b) THEN (IF a = b THEN a ELSE NaN)
    ELSE IF IsInf(a) THEN a
    ELSE IF IsInf(b) THEN b
    ELSE Overflow32(a + b)

Sub32(a, b) == Add32(a, Neg32(b))

Sign(a) == IF a > 0 THEN 1 ELSE IF a < 0 THEN -1 ELSE 0

Mul32(a, b) ==
    IF IsNaN(a) \/ IsNaN(b) THEN NaN
    ELSE IF IsInf(a) \/ IsInf(b)
         THEN (IF a = 0 \/ b = 0 THEN NaN
               ELSE IF Sign(a) * Sign(b) > 0 THEN PosInf ELSE NegInf)
    ELSE Overflow32(a * b)

\* a / 2: halving a binary floating-point value is exact, so the quotient of
\* a finite float32 may fall between two values of the model's grid; it is
\* only ever widened to float64.
Half32(a) == IF IsFinite(a) THEN a \div 2 ELSE a

----------------------------------------------------------------------------
(* BoundingBox *)

Vec(x, y, z) == [X |-> x, Y |-> y, Z |-> z]

\* The box both decoders start from.
SentinelBox ==
    [MinX |-> MaxFloat32, MinY |-> MaxFloat32, MinZ |-> MaxFloat32,
     MaxX |-> -MaxFloat32, MaxY |-> -MaxFloat32, MaxZ |-> -MaxFloat32,
     Center |-> Vec(0, 0, 0)]

Dimensions(bb) ==
    [width |-> Sub32(bb.MaxX, bb.MinX),
     height |-> Sub32(bb.MaxY, bb.MinY),
     depth |-> Sub32(bb.MaxZ, bb.MinZ)]

Volume(bb) ==
    LET d == Dimensions(bb) IN Mul32(Mul32(d.width, d.height), d.depth)

\* A variant of the "Calculate center" statement that does not halve.
WithCenterOfSums(bb) ==
    [bb EXCEPT !.Center =
        Vec(ToFloat64(Add32(bb.MinX, bb.MaxX)),
            ToFloat64(Add32(bb.MinY, bb.MaxY)),
            ToFloat64(Add32(bb.MinZ, bb.MaxZ)))]

\* The "Calculate center" statement of both decoders.
WithCenter(bb) ==
    [bb EXCEPT !.Center =
        Vec(ToFloat64(Half32(Add32(bb.MinX, bb.MaxX))),
            ToFloat64(Half32(Add32(bb.MinY, bb.MaxY))),
            ToFloat64(Half32(Add32(bb.MinZ, bb.MaxZ))))]

\* A variant of the loop body that tests Max only when Min did not move.
UpdateVertexElse(bb, vertex) ==
    LET x == ToFloat32(vertex.X)
        y == ToFloat32(vertex.Y)
        z == ToFloat32(vertex.Z)
    IN [bb EXCEPT
           !.MinX = IF Lt(x, @) THEN x ELSE @,
           !.MinY = IF Lt(y, @) THEN y ELSE @,
           !.MinZ = IF Lt(z, @) THEN z ELSE @,
           !.MaxX = IF ~Lt(x, bb.MinX) /\ Gt(x, @) THEN x ELSE @,
           !.MaxY = IF ~Lt(y, bb.MinY) /\ Gt(y, @) THEN y ELSE @,
           !.MaxZ = IF ~Lt(z, bb.MinZ) /\ Gt(z, @) THEN z ELSE @]

\* The body of updateBoundingBox's loop, for one vertex.
UpdateVertex(bb, vertex) ==
    LET x == ToFloat32(vertex.X)
        y == ToFloat32(vertex.Y)
        z == ToFloat32(vertex.Z)
    IN [bb EXCEPT
            !.MinX = IF Lt(x, @) THEN x ELSE @,
            !.MinY = IF Lt(y, @) THEN y ELSE @,
            !.MinZ = IF Lt(z, @) THEN z ELSE @,
            !.MaxX = IF Gt(x, @) THEN x ELSE @,
            !.MaxY = IF Gt(y, @) THEN y ELSE @,
            !.MaxZ = IF Gt(z, @) THEN z ELSE @]

RECURSIVE updateBoundingBox(_, _)
updateBoundingBox(bb, vertices) ==
    IF vertices = <<>> THEN bb
    ELSE updateBoundingBox(UpdateVertex(bb, Head(vertices)), Tail(vertices))

----------------------------------------------------------------------------
(* Bytes: text lines, and the segments of a byte stream *)

HeaderSize == 80
CountSize == 4
TriangleSize == 48
\* A variant of the attribute byte count that is as wide as the count.
AttrSizeWide == CountSize
AttrSize == 2

\* The width, in bytes, of a number as the model's ASCII files print it
\* (the %e form, as in 0.000000e+00).
NumWidth == 12

\* The characters of the words of the model's files.
Chars(w) ==
    CASE w = "solid" -> <<"s", "o", "l", "i", "d">>
      [] w = "solidworks" -> <<"s", "o", "l", "i", "d", "w", "o", "r", "k", "s">>
      [] w = "s" -> <<"s">>
      [] w = "facet" -> <<"f", "a", "c", "e", "t">>
      [] w = "normal" -> <<"n", "o", "r", "m", "a", "l">>
      [] w = "outer" -> <<"o", "u", "t", "e", "r">>
      [] w = "loop" -> <<"l", "o", "o", "p">>
      [] w = "vertex" -> <<"v", "e", "r", "t", "e", "x">>
      [] w = "endfacet" -> <<"e", "n", "d", "f", "a", "c", "e", "t">>
      [] w = "abc" -> <<"a", "b", "c">>
      [] OTHER -> <<"?">>

\* A field of a line: a word, or a number with the float64 it denotes.
Word(w) == [text |-> w, val |-> 0]
Num(d) == [text |-> "#", val |-> d]
IsNum(tok) == tok.text = "#"
TokLen(tok) == IF IsNum(tok) THEN NumWidth ELSE Len(Chars(tok.text))

RECURSIVE FieldsLen(_)
FieldsLen(fields) ==
    IF fields = <<>> THEN 0
    ELSE TokLen(Head(fields)) + (IF Len(fields) > 1 THEN 1 ELSE 0)
         + FieldsLen(Tail(fields))

\* A line of text: lead bytes of white space, the fields one space apart,
\* and the line feed.  A blank line is white space only.
Line(lead, fields) ==
    [lead |-> lead, fields |-> fields, size |-> lead + FieldsLen(fields) + 1]

\* size bytes that are no text: a binary header, cut or whole.
Bytes(size) == [lead |-> 0, fields |-> <<Word("?")>>, size |-> size]

\* Bytes lo..hi-1 of an item of the stream.
Seg(item, lo, hi) == [item |-> item, lo |-> lo, hi |-> hi]
Whole(item) == Seg(item, 0, item.size)
SegSize(sg) == sg.hi - sg.lo

RECURSIVE Size(_)
Size(segs) == IF segs = <<>> THEN 0 ELSE SegSize(Head(segs)) + Size(Tail(segs))

RECURSIVE Segments(_)
Segments(items) ==
    IF items = <<>> THEN <<>> ELSE <<Whole(Head(items))>> \o Segments(Tail(items))

\* The first n bytes of segs, and what follows them.
RECURSIVE Take(_, _)
Take(segs, n) ==
    IF n <= 0 \/ segs = <<>> THEN <<>>
    ELSE LET sg == Head(segs) IN
         IF SegSize(sg) <= n
         THEN <<sg>> \o Take(Tail(segs), n - SegSize(sg))
         ELSE <<Seg(sg.item, sg.lo, sg.lo + n)>>

RECURSIVE Drop(_, _)
Drop(segs, n) ==
    IF segs = <<>> THEN <<>>
    ELSE IF n <= 0 THEN segs
    ELSE LET sg == Head(segs) IN
         IF SegSize(sg) <= n
         THEN Drop(Tail(segs), n - SegSize(sg))
         ELSE <<Seg(sg.item, sg.lo + n, sg.hi)>> \o Tail(segs)

Min(a, b) == IF a < b THEN a ELSE b

\* strings.TrimSpace(headerStr), as far as its first word: the characters of
\* the first word of the text that the segments hold (none when they hold
\* white space only).
RECURSIVE TrimSpace(_)
TrimSpace(segs) ==
    IF segs = <<>> THEN <<>>
    ELSE LET sg == Head(segs)
             it == sg.item
         IN IF sg.lo > 0 THEN <<"?">>
            ELSE IF it.fields = <<>> \/ sg.hi <= it.lead
                 THEN TrimSpace(Tail(segs))
            ELSE LET cs == Chars(it.fields[1].text)
                 IN SubSeq(cs, 1, Min(Len(cs), sg.hi - it.lead))

\* strings.HasPrefix(s, prefix).
HasPrefix(s, prefix) ==
    Len(s) >= Len(prefix) /\ SubSeq(s, 1, Len(prefix)) = prefix

----------------------------------------------------------------------------
(* The inputs the environment draws from *)

\* The triangles a binary stream declares are 0..MaxCount.
MaxCount == 2
\* The lines beyond the first that the sniffed bytes are drawn from, and the
\* lines a stream produces in all.
MaxHeaderLines == 2
MaxLines == 11

\* Vertex coordinates as the files hold them.  VB is not a float32 (its x
\* and z lie between two float32 values) and only a text file can hold it.
VA == Vec(0, 0, 0)
VB == Vec(3, NaN, -3)
VC == Vec(MaxFloat32, 0, NegInf)
VD == Vec(-2, 2, 2)

Vertices == {VA, VB, VC, VD}
BinaryVertices ==
    {v \in Vertices : v.X \in Float32 /\ v.Y \in Float32 /\ v.Z \in Float32}
BinaryTriangles == [1..3 -> BinaryVertices]

SolidLine == Line(0, <<Word("solid"), Word("s")>>)
FacetLine == Line(1, <<Word("facet"), Word("normal"), Num(0), Num(0), Num(2)>>)
OuterLine == Line(2, <<Word("outer"), Word("loop")>>)
VertexLine(v) == Line(3, <<Word("vertex"), Num(v.X), Num(v.Y), Num(v.Z)>>)
ShortVertexLine == Line(3, <<Word("vertex"), Num(0), Num(0)>>)
BadVertexLine(k) ==
    Line(3, <<Word("vertex")>>
            \o [j \in 1..3 |-> IF j = k THEN Word("abc") ELSE Num(0)])
EndFacetLine == Line(1, <<Word("endfacet")>>)
BlankLine == Line(0, <<>>)

\* The lines a text stream is made of.
ScanLines ==
    {SolidLine, FacetLine, OuterLine, ShortVertexLine, EndFacetLine, BlankLine}
    \cup {VertexLine(v) : v \in Vertices}
    \cup {BadVertexLine(k) : k \in 1..3}

\* How a stream that the sniffer takes for text may begin: "solid" is its
\* first word, or the start of it; the last has 75 bytes of white space
\* before the word, which so ends with the sniffed bytes.
SolidStarts ==
    {SolidLine,
     Line(0, <<Word("solidworks"), Word("s")>>),
     Line(HeaderSize - 5, <<Word("solid"), Word("s")>>)}

\* A binary header that happens to begin with "solid".
SolidHeader ==
    [lead |-> 0, fields |-> <<Word("solid"), Word("?")>>, size |-> HeaderSize]

\* How any other stream may begin: a binary header, whole or cut short by
\* the end of the stream; text that does not begin with "solid"; white
\* space; and "solid" after 77 bytes of white space, of which the sniffed
\* bytes hold "sol".
OtherStarts ==
    {Bytes(n) : n \in 1..HeaderSize}
    \cup {FacetLine, BlankLine, Line(HeaderSize + 2, <<>>),
          Line(HeaderSize - 3, <<Word("solid"), Word("s")>>)}

SeqsUpTo(S, n) == UNION {[1..k -> S] : k \in 0..n}

StreamStarts ==
    {<<>>, <<BlankLine, SolidLine>>}
    \cup {<<it>> : it \in OtherStarts \cup {SolidHeader}}
    \cup {<<it>> \o ls : it \in SolidStarts, ls \in SeqsUpTo(ScanLines, MaxHeaderLines)}

\* The offset in the stream of its item j.
RECURSIVE OffsetOf(_, _)
OffsetOf(items, j) ==
    IF j <= 1 THEN 0 ELSE OffsetOf(items, j - 1) + items[j - 1].size

\* The first min(80, length) bytes of the stream hold white space and then
\* the five characters of "solid".
BeginsWithSolid(items) ==
    LET n == Min(HeaderSize, Size(Segments(items)))
    IN \E j \in 1..Len(items) :
        /\ \A k \in 1..(j - 1) : items[k].fields = <<>>
        /\ items[j].fields # <<>>
        /\ HasPrefix(Chars(items[j].fields[1].text), Chars("solid"))
        /\ OffsetOf(items, j) + items[j].lead + Len(Chars("solid")) <= n

\* The numbers of bytes a read that the stream's end cuts short may get, of
\* the n it asks for.
ShortReads(n) == {0, n \div 2, n - 1}

----------------------------------------------------------------------------
(* What CalculateBoundingBox returns *)

NilBox == [nil |-> TRUE]
Running == [status |-> "running", msg |-> "", args |-> <<>>, err |-> "nil", box |-> NilBox]
\* return bbox, nil
Ok(bb) == [status |-> "ok", msg |-> "", args |-> <<>>, err |-> "nil", box |-> bb]
\* return nil, fmt.Errorf(msg, args...): args are the integers the message
\* formats with %d, err the error it wraps with %w ("nil" when it wraps none).
Errorf(msg, args, err) ==
    [status |-> "error", msg |-> msg, args |-> args, err |-> err, box |-> NilBox]

----------------------------------------------------------------------------
(* The initial state: CalculateBoundingBox is called on a fresh reader *)

ZeroTriangle == <<Vec(0, 0, 0), Vec(0, 0, 0), Vec(0, 0, 0)>>
NoRun == [tris |-> <<>>, binary |-> Running, ascii |-> Running]

\* The locals of a call that has not run a statement yet.
Fresh ==
    /\ pc = "sniff"
    /\ headerStr = <<>>
    /\ r = [rest |-> <<>>, state |-> "open", off |-> 0]
    /\ format = "none"
    /\ numTriangles = 0
    /\ i = 0
    /\ bbox = SentinelBox
    /\ currentTriangle = ZeroTriangle
    /\ vertexIndex = 0
    /\ inFacet = FALSE
    /\ result = Running
    /\ sniffed = [n |-> 0, text |-> <<>>, solid |-> FALSE]
    /\ folded = {}
    /\ nfold = 0
    /\ nlines = 0
    /\ line = [no |-> 0, fields |-> <<>>]

Init == Fresh /\ pure = NoRun

----------------------------------------------------------------------------
(* CalculateBoundingBox: the format sniffer *)

\* A variant of io.ReadFull's error that is io.EOF for every read that the
\* end of the stream cuts short.
ReadFullErrEOF(n, want, st) ==
    IF n = want THEN "nil"
    ELSE IF st = "err" THEN "ioerr"
    ELSE "EOF"

\* The error of io.ReadFull that got n of want bytes from a reader in
\* state st: EOF only when no byte was read.
ReadFullErr(n, want, st) ==
    IF n = want THEN "nil"
    ELSE IF st = "err" THEN "ioerr"
    ELSE IF n = 0 THEN "EOF"
    ELSE "ErrUnexpectedEOF"

\* A variant that looks at the first character only.
IsASCIIFirstChar(header) == HasPrefix(TrimSpace(header), Chars("s"))

\* strings.HasPrefix(strings.TrimSpace(headerStr), "solid")
IsASCII(header) == HasPrefix(TrimSpace(header), Chars("solid"))

\* The decoder that the return statements of CalculateBoundingBox call.
SelectFormat(header) == IF IsASCII(header) THEN "ascii" ELSE "binary"

\* A variant of headerStr that holds none of the bytes read.
HeaderStringEmpty(all) == <<>>

\* headerStr := string(header[:n]), of the stream that begins with all.
HeaderString(all) == Take(all, HeaderSize)

Sniff ==
    /\ pc = "sniff"
    /\ \E items \in StreamStarts, end \in {"eof", "err"} :
        LET all == Segments(items)
            header == HeaderString(all)
            n == Size(Take(all, HeaderSize))
            st == IF Size(all) >= HeaderSize THEN "open" ELSE end
            err == ReadFullErr(n, HeaderSize, st)
        IN /\ Size(all) >= HeaderSize => end = "eof"
           /\ sniffed' = [n |-> n, text |-> TrimSpace(header),
                          solid |-> BeginsWithSolid(items)]
           /\ nlines' = Len(items)
           /\ r' = [rest |-> Drop(all, HeaderSize), state |-> st, off |-> n]
           /\ IF err # "nil" /\ err # "ErrUnexpectedEOF"
              THEN /\ result' = Errorf("error reading header: %w", <<>>, err)
                   /\ pc' = "done"
                   /\ UNCHANGED <<headerStr, format>>
              ELSE /\ headerStr' = header
                   /\ format' = SelectFormat(header)
                   /\ pc' = IF format' = "ascii" THEN "asciiScan" ELSE "binHeader"
                   /\ UNCHANGED result
    /\ UNCHANGED <<numTriangles, i, bbox, currentTriangle, vertexIndex,
                   inFacet, folded, nfold, line, pure>>

----------------------------------------------------------------------------
(* Reading from io.MultiReader(strings.NewReader(headerStr), r) *)

\* What io.ReadFull of n bytes may do: the sniffed bytes come first, then
\* the bytes of r; a stream still open holds the bytes asked for, or ends
\* short of them.  ok: the n bytes were read; err: the error otherwise.
ReadFull(n) ==
    LET inHeader == Min(n, Size(headerStr))
        known == Size(headerStr) + Size(r.rest)
    IN IF known >= n
       THEN {[ok |-> TRUE, err |-> "nil", hs |-> Drop(headerStr, n),
              rd |-> [r EXCEPT !.rest = Drop(@, n - inHeader),
                               !.off = @ + (n - inHeader)]]}
       ELSE IF r.state = "open"
       THEN {[ok |-> TRUE, err |-> "nil", hs |-> <<>>,
              rd |-> [r EXCEPT !.rest = <<>>, !.off = @ + (n - inHeader)]]}
            \cup
            {[ok |-> FALSE, err |-> ReadFullErr(known + k, n, e), hs |-> <<>>,
              rd |-> [rest |-> <<>>, state |-> e,
                      off |-> r.off + Size(r.rest) + k]] :
                 k \in {j \in ShortReads(n - known) : j >= 0 /\ j < n - known},
                 e \in {"eof", "err"}}
       ELSE {[ok |-> FALSE, err |-> ReadFullErr(known, n, r.state), hs |-> <<>>,
              rd |-> [r EXCEPT !.rest = <<>>, !.off = @ + Size(r.rest)]]}

----------------------------------------------------------------------------
(* parseBinary *)

\* The vertices of a decoded record, widened to float64.
Widen(t) ==
    [j \in 1..3 |-> Vec(ToFloat64(t[j].X), ToFloat64(t[j].Y), ToFloat64(t[j].Z))]

\* The vertices of a triangle as the accumulator stores them.
Stored(vertices) ==
    {Vec(ToFloat32(vertices[j].X), ToFloat32(vertices[j].Y),
         ToFloat32(vertices[j].Z)) : j \in 1..3}

\* A variant that folds the first two vertices of the record only.
FoldRecordInPart(bb, t) == updateBoundingBox(bb, SubSeq(Widen(t), 1, 2))

\* updateBoundingBox(bbox, vertices[:]) on the vertices of record t.
FoldRecord(bb, t) == updateBoundingBox(bb, Widen(t))

\* The statements after the loop of parseBinary.
BinaryResult(bb) == Ok(WithCenter(bb))

\* The error of a failed read of record index's attribute byte count.
AttrError(index, err) == Errorf("error reading attribute byte count: %w", <<>>, err)

BinHeader ==
    /\ pc = "binHeader"
    /\ \E o \in ReadFull(HeaderSize) :
        /\ headerStr' = o.hs
        /\ r' = o.rd
        /\ IF o.ok
           THEN pc' = "binCount" /\ UNCHANGED result
           ELSE /\ result' = Errorf("error reading header: %w", <<>>, o.err)
                /\ pc' = "done"
    /\ UNCHANGED <<format, numTriangles, i, bbox, currentTriangle, vertexIndex,
                   inFacet, sniffed, folded, nfold, nlines, line, pure>>

BinCount ==
    /\ pc = "binCount"
    /\ \E o \in ReadFull(CountSize) :
        /\ headerStr' = o.hs
        /\ r' = o.rd
        /\ IF o.ok
           THEN /\ \E n \in 0..MaxCount : numTriangles' = n
                /\ bbox' = SentinelBox
                /\ i' = 0
                /\ pc' = "binLoop"
                /\ UNCHANGED result
           ELSE /\ result' = Errorf("error reading number of triangles: %w", <<>>, o.err)
                /\ pc' = "done"
                /\ UNCHANGED <<numTriangles, bbox, i>>
    /\ UNCHANGED <<format, currentTriangle, vertexIndex, inFacet, sniffed,
                   folded, nfold, nlines, line, pure>>

BinTriangle ==
    /\ pc = "binLoop"
    /\ i < numTriangles
    /\ \E o \in ReadFull(TriangleSize) :
        /\ headerStr' = o.hs
        /\ r' = o.rd
        /\ IF o.ok
           THEN /\ \E t \in BinaryTriangles :
                    /\ bbox' = FoldRecord(bbox, t)
                    /\ folded' = folded \cup Stored(Widen(t))
                /\ nfold' = nfold + 1
                /\ pc' = "binAttr"
                /\ UNCHANGED result
           ELSE /\ result' = Errorf("error reading triangle %d: %w", <<i>>, o.err)
                /\ pc' = "done"
                /\ UNCHANGED <<bbox, folded, nfold>>
    /\ UNCHANGED <<format, numTriangles, i, currentTriangle, vertexIndex,
                   inFacet, sniffed, nlines, line, pure>>

BinAttr ==
    /\ pc = "binAttr"
    /\ \E o \in ReadFull(AttrSize) :
        /\ headerStr' = o.hs
        /\ r' = o.rd
        /\ IF o.ok
           THEN i' = i + 1 /\ pc' = "binLoop" /\ UNCHANGED result
           ELSE /\ result' = AttrError(i, o.err)
                /\ pc' = "done"
                /\ UNCHANGED i
    /\ UNCHANGED <<format, numTriangles, bbox, currentTriangle, vertexIndex,
                   inFacet, sniffed, folded, nfold, nlines, line, pure>>

\* The loop is over: the "Calculate center" statement and return bbox, nil.
BinReturn ==
    /\ pc = "binLoop"
    /\ i >= numTriangles
    /\ result' = BinaryResult(bbox)
    /\ bbox' = result'.box
    /\ pc' = "done"
    /\ UNCHANGED <<headerStr, r, format, numTriangles, i, currentTriangle,
                   vertexIndex, inFacet, sniffed, folded, nfold, nlines, line, pure>>

----------------------------------------------------------------------------
(* parseASCII *)

\* The number of segments at the head of segs that hold bytes of one line.
RECURSIVE JoinCount(_)
JoinCount(segs) ==
    IF Len(segs) >= 2 /\ segs[2].item = segs[1].item /\ segs[2].lo = segs[1].hi
    THEN 1 + JoinCount(Tail(segs))
    ELSE 1

\* strings.Fields(strings.TrimSpace(scanner.Text())) of the line that the
\* first k segments hold: the fields of the line when they hold all of it.
FieldsOf(segs, k) ==
    IF segs[1].lo = 0 /\ segs[k].hi = segs[1].item.size
    THEN segs[1].item.fields
    ELSE <<Word("?")>>

\* What scanner.Scan() may do: the next line comes from the sniffed bytes
\* and the bytes of r after them; a stream still open produces one more
\* line or ends.  more: Scan returned true.  (The scanner reads r through
\* a buffer of its own, ahead of the lines: r.off does not count its reads.)
Scan ==
    LET known == headerStr \o r.rest
    IN IF known # <<>>
       THEN LET k == JoinCount(known)
                kh == Min(k, Len(headerStr))
            IN {[more |-> TRUE, fields |-> FieldsOf(known, k),
                 hs |-> SubSeq(headerStr, kh + 1, Len(headerStr)),
                 rd |-> [r EXCEPT !.rest = SubSeq(@, k - kh + 1, Len(@))],
                 nl |-> nlines]}
       ELSE IF r.state = "open"
       THEN {[more |-> TRUE, fields |-> ln.fields, hs |-> <<>>,
              rd |-> r, nl |-> nlines + 1] :
                 ln \in {l \in ScanLines : nlines < MaxLines}}
            \cup
            {[more |-> FALSE, fields |-> <<>>, hs |-> <<>>,
              rd |-> [r EXCEPT !.state = e], nl |-> nlines] :
                 e \in {"eof", "err"}}
       ELSE {[more |-> FALSE, fields |-> <<>>, hs |-> <<>>, rd |-> r,
              nl |-> nlines]}

\* strconv.ParseFloat(tok, 64): the value, and whether err == nil.
ParseFloat(tok) == [val |-> tok.val, ok |-> IsNum(tok)]

\* The first word of a line that has one.
Keyword(fields) == fields[1].text

\* The locals of parseASCII, with what it has returned (result) and the
\* history of what it has folded.
AsciiStart ==
    [bbox |-> SentinelBox, currentTriangle |-> ZeroTriangle, vertexIndex |-> 0,
     inFacet |-> FALSE, result |-> Running, folded |-> {}, nfold |-> 0]

\* return nil, fmt.Errorf(msg, args...) from the loop.
Abort(st, msg, args, err) == [st EXCEPT !.result = Errorf(msg, args, err)]

\* A variant of case "facet" that starts the accumulator afresh.
FacetStepFreshBox(st) ==
    [st EXCEPT !.inFacet = TRUE, !.vertexIndex = 0, !.bbox = SentinelBox]

\* case "facet"
FacetStep(st) == [st EXCEPT !.inFacet = TRUE, !.vertexIndex = 0]

\* A variant of case "vertex" that does not test inFacet.
VertexStepAnywhere(st, fields) ==
    IF Len(fields) < 4
    THEN Abort(st, "invalid vertex line: %s", <<>>, "nil")
    ELSE IF st.vertexIndex >= 3
    THEN Abort(st, "too many vertices in facet", <<>>, "nil")
    ELSE LET x == ParseFloat(fields[2])
             y == ParseFloat(fields[3])
             z == ParseFloat(fields[4])
         IN IF ~x.ok THEN Abort(st, "error parsing x coordinate: %w", <<>>, "syntax")
            ELSE IF ~y.ok THEN Abort(st, "error parsing y coordinate: %w", <<>>, "syntax")
            ELSE IF ~z.ok THEN Abort(st, "error parsing z coordinate: %w", <<>>, "syntax")
            ELSE [st EXCEPT
                     !.currentTriangle[st.vertexIndex + 1] = Vec(x.val, y.val, z.val),
                     !.vertexIndex = @ + 1]

\* case "vertex"
VertexStep(st, fields) ==
    IF ~st.inFacet \/ Len(fields) < 4
    THEN Abort(st, "invalid vertex line: %s", <<>>, "nil")
    ELSE IF st.vertexIndex >= 3
    THEN Abort(st, "too many vertices in facet", <<>>, "nil")
    ELSE LET x == ParseFloat(fields[2])
             y == ParseFloat(fields[3])
             z == ParseFloat(fields[4])
         IN IF ~x.ok THEN Abort(st, "error parsing x coordinate: %w", <<>>, "syntax")
            ELSE IF ~y.ok THEN Abort(st, "error parsing y coordinate: %w", <<>>, "syntax")
            ELSE IF ~z.ok THEN Abort(st, "error parsing z coordinate: %w", <<>>, "syntax")
            ELSE [st EXCEPT
                     !.currentTriangle[st.vertexIndex + 1] = Vec(x.val, y.val, z.val),
                     !.vertexIndex = @ + 1]

\* A variant of case "endfacet" that rejects only a facet with no vertex.
EndfacetStepLenient(st) ==
    IF st.vertexIndex = 0
    THEN Abort(st, "incomplete triangle, got %d vertices", <<st.vertexIndex>>, "nil")
    ELSE [st EXCEPT
             !.bbox = updateBoundingBox(@, st.currentTriangle),
             !.inFacet = FALSE,
             !.folded = @ \cup Stored(st.currentTriangle),
             !.nfold = @ + 1]

\* A variant of case "endfacet" that clears the pending vertices.
EndfacetStepClearing(st) ==
    IF st.vertexIndex # 3
    THEN Abort(st, "incomplete triangle, got %d vertices", <<st.vertexIndex>>, "nil")
    ELSE [st EXCEPT
             !.bbox = updateBoundingBox(@, st.currentTriangle),
             !.inFacet = FALSE,
             !.currentTriangle = ZeroTriangle,
             !.folded = @ \cup Stored(st.currentTriangle),
             !.nfold = @ + 1]

\* case "endfacet"
EndfacetStep(st) ==
    IF st.vertexIndex # 3
    THEN Abort(st, "incomplete triangle, got %d vertices", <<st.vertexIndex>>, "nil")
    ELSE [st EXCEPT
             !.bbox = updateBoundingBox(@, st.currentTriangle),
             !.inFacet = FALSE,
             !.folded = @ \cup Stored(st.currentTriangle),
             !.nfold = @ + 1]

\* The body of the scan loop, for the line with these fields.
AsciiStep(st, fields) ==
    IF Len(fields) = 0 THEN st
    ELSE IF Keyword(fields) = "facet" THEN FacetStep(st)
    ELSE IF Keyword(fields) = "vertex" THEN VertexStep(st, fields)
    ELSE IF Keyword(fields) = "endfacet" THEN EndfacetStep(st)
    ELSE st

\* A variant of the test that looks at MaxX.
NoTrianglesMaxX(bb) == Eq(bb.MaxX, MaxFloat32)

\* The "Check if we found any triangles" test.
NoTriangles(bb) == Eq(bb.MinX, MaxFloat32)

\* What parseASCII returns once the scan is over, with the accumulator bb
\* and the scanner's error state e.
AsciiResult(bb, e) ==
    IF e = "err" THEN Errorf("error reading file: %w", <<>>, "ioerr")
    ELSE IF NoTriangles(bb) THEN Errorf("no triangles found in STL file", <<>>, "nil")
    ELSE Ok(WithCenter(bb))

\* The locals of the running parseASCII.
AsciiNow ==
    [bbox |-> bbox, currentTriangle |-> currentTriangle,
     vertexIndex |-> vertexIndex, inFacet |-> inFacet, result |-> result,
     folded |-> folded, nfold |-> nfold]

\* Scan took the line with the fields of o, and the loop body ran on it.
AsciiLine(o) ==
    LET st == AsciiStep(AsciiNow, o.fields)
    IN /\ headerStr' = o.hs
       /\ r' = o.rd
       /\ nlines' = o.nl
       /\ bbox' = st.bbox
       /\ currentTriangle' = st.currentTriangle
       /\ vertexIndex' = st.vertexIndex
       /\ inFacet' = st.inFacet
       /\ result' = st.result
       /\ folded' = st.folded
       /\ nfold' = st.nfold
       /\ pc' = IF st.result.status = "error" THEN "done" ELSE "asciiScan"
       /\ line' = [no |-> line.no + 1, fields |-> o.fields]
       /\ UNCHANGED <<format, numTriangles, i, sniffed, pure>>

\* if len(fields) == 0 { continue }
AsciiBlank ==
    /\ pc = "asciiScan"
    /\ \E o \in Scan : o.more /\ Len(o.fields) = 0 /\ AsciiLine(o)

AsciiFacet ==
    /\ pc = "asciiScan"
    /\ \E o \in Scan :
        o.more /\ Len(o.fields) > 0 /\ Keyword(o.fields) = "facet" /\ AsciiLine(o)

AsciiVertex ==
    /\ pc = "asciiScan"
    /\ \E o \in Scan :
        o.more /\ Len(o.fields) > 0 /\ Keyword(o.fields) = "vertex" /\ AsciiLine(o)

AsciiEndfacet ==
    /\ pc = "asciiScan"
    /\ \E o \in Scan :
        o.more /\ Len(o.fields) > 0 /\ Keyword(o.fields) = "endfacet" /\ AsciiLine(o)

\* A line that the switch has no case for.
AsciiOther ==
    /\ pc = "asciiScan"
    /\ \E o \in Scan :
        /\ o.more
        /\ Len(o.fields) > 0
        /\ Keyword(o.fields) \notin {"facet", "vertex", "endfacet"}
        /\ AsciiLine(o)

\* Scan returned false: the statements after the loop.
AsciiReturn ==
    /\ pc = "asciiScan"
    /\ \E o \in Scan :
        /\ ~o.more
        /\ headerStr' = o.hs
        /\ r' = o.rd
        /\ nlines' = o.nl
        /\ result' = AsciiResult(bbox, o.rd.state)
        /\ bbox' = IF result'.status = "ok" THEN result'.box ELSE bbox
    /\ pc' = "done"
    /\ UNCHANGED <<format, numTriangles, i, currentTriangle, vertexIndex,
                   inFacet, sniffed, folded, nfold, line, pure>>

----------------------------------------------------------------------------
(* Whole files: the decoders run from the first byte to the return *)

\* The files hold up to MaxRecords triangles, each with its vertices in the
\* order of their x coordinates.
MaxRecords == 2
FileTriangles ==
    {t \in BinaryTriangles : t[1].X <= t[2].X /\ t[2].X <= t[3].X}

\* The well-formed ASCII text of the triangles tris.
RECURSIVE FacetLines(_)
FacetLines(tris) ==
    IF tris = <<>> THEN <<>>
    ELSE <<FacetLine, OuterLine,
           VertexLine(Head(tris)[1]), VertexLine(Head(tris)[2]),
           VertexLine(Head(tris)[3]),
           Line(2, <<Word("endloop")>>), EndFacetLine>>
         \o FacetLines(Tail(tris))

EncodeASCII(tris) ==
    <<SolidLine>> \o FacetLines(tris) \o <<Line(0, <<Word("endsolid"), Word("s")>>)>>

\* for scanner.Scan() { ... } over these lines, from the locals st.
RECURSIVE ScanLoop(_, _)
ScanLoop(st, lines) ==
    IF lines = <<>> \/ st.result.status = "error" THEN st
    ELSE ScanLoop(AsciiStep(st, Head(lines).fields), Tail(lines))

\* parseASCII on a reader that yields these lines and then io.EOF.
parseASCII(lines) ==
    LET st == ScanLoop(AsciiStart, lines)
    IN IF st.result.status = "error" THEN st.result
       ELSE AsciiResult(st.bbox, "eof")

\* for i := uint32(0); i < numTriangles; i++ { ... } over complete records.
RECURSIVE RecordLoop(_, _)
RecordLoop(bb, records) ==
    IF records = <<>> THEN bb
    ELSE RecordLoop(FoldRecord(bb, Head(records)), Tail(records))

\* parseBinary on a reader that yields an 80-byte header, the count
\* Len(records), and these records, each with its attribute byte count.
parseBinary(records) == BinaryResult(RecordLoop(SentinelBox, records))

InitPure ==
    /\ Fresh
    /\ pure \in {[NoRun EXCEPT !.tris = s] : s \in SeqsUpTo(FileTriangles, MaxRecords)}

DecodeBinary ==
    /\ pure.binary = Running
    /\ pure' = [pure EXCEPT !.binary = parseBinary(pure.tris)]
    /\ UNCHANGED <<pc, headerStr, r, format, numTriangles, i, bbox,
                   currentTriangle, vertexIndex, inFacet, result, sniffed,
                   folded, nfold, nlines, line>>

DecodeASCII ==
    /\ pure.ascii = Running
    /\ pure' = [pure EXCEPT !.ascii = parseASCII(EncodeASCII(pure.tris))]
    /\ UNCHANGED <<pc, headerStr, r, format, numTriangles, i, bbox,
                   currentTriangle, vertexIndex, inFacet, result, sniffed,
                   folded, nfold, nlines, line>>

NextPure == DecodeBinary \/ DecodeASCII

SpecPure == InitPure /\ [][NextPure]_vars

----------------------------------------------------------------------------
(* The specification *)

Next ==
    \/ Sniff
    \/ BinHeader
    \/ BinCount
    \/ BinTriangle
    \/ BinAttr
    \/ BinReturn
    \/ AsciiBlank
    \/ AsciiFacet
    \/ AsciiVertex
    \/ AsciiEndfacet
    \/ AsciiOther
    \/ AsciiReturn

Spec == Init /\ [][Next]_vars

----------------------------------------------------------------------------
(* Properties *)

\* The coordinates, on one axis, of the vertices folded so far.
Coords(axis) == {v[axis] : v \in folded}

Least(m, S) == m \in S /\ \A c \in S : Le(m, c)
Greatest(m, S) == m \in S /\ \A c \in S : Le(c, m)

\* The box is the exact envelope of the folded vertices.
Exact(bb) ==
    /\ Least(bb.MinX, Coords("X")) /\ Greatest(bb.MaxX, Coords("X"))
    /\ Least(bb.MinY, Coords("Y")) /\ Greatest(bb.MaxY, Coords("Y"))
    /\ Least(bb.MinZ, Coords("Z")) /\ Greatest(bb.MaxZ, Coords("Z"))

\* C1: a box returned after at least one triangle was folded has, on every
\* axis, the smallest folded coordinate as its Min and the largest as its
\* Max, at the stored precision.
C1_ExactBounds ==
    (result.status = "ok" /\ nfold >= 1) => Exact(result.box)

NonNegative(f) == Le(0, f)

\* C2: a box returned as a success was populated by at least one triangle,
\* and every component of its Dimensions() and its Volume() are >= 0.
C2_Populated ==
    result.status = "ok" =>
        /\ nfold >= 1
        /\ NonNegative(Dimensions(result.box).width)
        /\ NonNegative(Dimensions(result.box).height)
        /\ NonNegative(Dimensions(result.box).depth)
        /\ NonNegative(Volume(result.box))

\* The accumulator that folding the vertices of S, in any order, gives.
RECURSIVE FoldSet(_)
FoldSet(S) ==
    IF S = {} THEN SentinelBox
    ELSE LET v == CHOOSE w \in S : TRUE
         IN UpdateVertex(FoldSet(S \ {v}), v)

TriangleAbort == "error reading triangle %d: %w"
AttributeAbort == "error reading attribute byte count: %w"

\* parseBinary returned an error from inside its loop, at record i.
AbortedAtRecord ==
    /\ pc = "done"
    /\ format = "binary"
    /\ result.status = "error"
    /\ result.msg \in {TriangleAbort, AttributeAbort}

\* C3 (as stated): when the binary decoder aborts at record i, on its
\* triangle data or on its attribute field, the accumulator is the fold of
\* the records 0..i-1 and nothing of record i has been applied.
C3_AbortLeavesEarlierRecords ==
    AbortedAtRecord => (nfold = i /\ bbox = FoldSet(folded))

\* C3 (amended): no record is applied in part; an abort on the triangle data
\* of record i leaves the fold of the records 0..i-1, an abort on the
\* attribute field of record i leaves the fold of the records 0..i.
C3_AllOrNothing ==
    AbortedAtRecord =>
        /\ bbox = FoldSet(folded)
        /\ result.box = NilBox
        /\ result.msg = TriangleAbort => nfold = i
        /\ result.msg = AttributeAbort => nfold = i + 1

\* The decoder aborted on the attribute field of the second record, with
\* both records folded.
C3_Witness ==
    /\ AbortedAtRecord
    /\ result.msg = AttributeAbort
    /\ i = 1
    /\ nfold = 2
    /\ bbox # SentinelBox

\* C4: a binary stream cut inside record i, attribute field included, fails
\* with an error that names the index i, and returns no box.
C4_ShortReadNamesRecord ==
    AbortedAtRecord => (result.args = <<i>> /\ result.box = NilBox)

\* C7: once a triangle has been folded, and in every box returned after one,
\* Min <= Max on every axis.
C7_MinLeMax ==
    (nfold >= 1 /\ format \in {"ascii", "binary"}) =>
        /\ Le(bbox.MinX, bbox.MaxX)
        /\ Le(bbox.MinY, bbox.MaxY)
        /\ Le(bbox.MinZ, bbox.MaxZ)

Permute(seq, p) == [k \in 1..Len(seq) |-> seq[p[k]]]

\* C5: every permutation of the records of a binary file, and of the facets
\* of an ASCII file, gives the result of the file itself: the same Min, Max
\* and Center.
C5_OrderIndependent ==
    \A p \in Permutations(1..Len(pure.tris)) :
        /\ pure.binary # Running =>
               parseBinary(Permute(pure.tris, p)) = pure.binary
        /\ pure.ascii # Running =>
               parseASCII(EncodeASCII(Permute(pure.tris, p))) = pure.ascii

\* Both decoders returned a box for two triangles that each move a bound.
C5_Witness ==
    /\ Len(pure.tris) = 2
    /\ pure.binary.status = "ok"
    /\ pure.ascii.status = "ok"
    /\ pure.binary.box # parseBinary(<<pure.tris[1]>>).box
    /\ pure.binary.box # parseBinary(<<pure.tris[2]>>).box
    /\ pure.ascii.box # parseASCII(EncodeASCII(<<pure.tris[1]>>)).box
    /\ pure.ascii.box # parseASCII(EncodeASCII(<<pure.tris[2]>>)).box

\* C6: the binary file and the ASCII file of one non-empty sequence of
\* triangles give identical results.
C6_SameResult ==
    (pure.tris # <<>> /\ pure.binary # Running /\ pure.ascii # Running)
        => pure.binary = pure.ascii

NoTrianglesFound == Errorf("no triangles found in STL file", <<>>, "nil")

\* C8: when the ASCII scan ends at the end of the input and no triangle was
\* folded, parseASCII returns the no-triangles error and no box.
C8_EmptyScanFails ==
    [][(/\ pc = "asciiScan"
        /\ pc' = "done"
        /\ line'.no = line.no
        /\ r'.state = "eof"
        /\ nfold = 0)
       => (result' = NoTrianglesFound /\ result'.box = NilBox)]_vars

\* A scan of at least two lines ended with no triangle folded.
C8_Witness ==
    /\ pc = "done"
    /\ format = "ascii"
    /\ r.state = "eof"
    /\ nfold = 0
    /\ line.no >= 2
    /\ result = NoTrianglesFound

IncompleteTriangle(k) ==
    Errorf("incomplete triangle, got %d vertices", <<k>>, "nil")

\* C9: an endfacet line read when the facet holds k # 3 vertices makes the
\* parse fail with the incomplete-triangle error that reports k; nothing is
\* folded and no box is returned.
C9_IncompleteTriangle ==
    [][(/\ pc = "asciiScan"
        /\ line'.no = line.no + 1
        /\ line'.fields = EndFacetLine.fields
        /\ vertexIndex # 3)
       => (/\ vertexIndex \in 0..2
           /\ result' = IncompleteTriangle(vertexIndex)
           /\ result'.box = NilBox
           /\ pc' = "done"
           /\ bbox' = bbox
           /\ folded' = folded
           /\ nfold' = nfold)]_vars

\* The second facet of a file ended after two vertices.
C9_Witness ==
    /\ pc = "done"
    /\ line.fields = EndFacetLine.fields
    /\ result = IncompleteTriangle(2)
    /\ nfold = 1

BinaryLabels == {"binHeader", "binCount", "binLoop", "binAttr"}

HeaderError(err) == Errorf("error reading header: %w", <<>>, err)

\* C11 (as stated): for a stream of 0 to 79 bytes the sniffing step does not
\* fail; it returns an error only when the stream fails for another reason
\* than its end.
C11_SniffFailsOnlyOnIOError ==
    (pc = "done" /\ format = "none") => r.state = "err"

\* C11 (amended): for a stream of 1 to 79 bytes the sniffing step does not
\* fail and hands the bytes to a decoder; for the empty stream it returns
\* the header error that wraps io.EOF; any other error of the step is that
\* of a failing stream.
C11_ShortStreamSniffed ==
    [][pc = "sniff" =>
          /\ (r'.state = "eof" /\ sniffed'.n \in 1..(HeaderSize - 1)) =>
                 /\ format' \in {"ascii", "binary"}
                 /\ result' = Running
                 /\ pc' \in {"asciiScan", "binHeader"}
                 /\ Size(headerStr') = sniffed'.n
          /\ (r'.state = "eof" /\ sniffed'.n = 0) =>
                 /\ result' = HeaderError("EOF")
                 /\ format' = "none"
                 /\ pc' = "done"
          /\ result'.status = "error" =>
                 (r'.state = "err" \/ (r'.state = "eof" /\ sniffed'.n = 0))]_vars

\* A text of fewer than 80 bytes went to parseASCII, which scans it.
C11_Witness ==
    /\ pc = "asciiScan"
    /\ format = "ascii"
    /\ r.state = "eof"
    /\ sniffed.n \in 1..(HeaderSize - 1)
    /\ line.no = 0

\* (lo + hi) / 2 in float32, widened; and the exact midpoint when the sum
\* of two finite bounds is in range.
Mid32(lo, hi) == ToFloat64(Half32(Add32(lo, hi)))
InRange(v) == -MaxFloat32 <= v /\ v <= MaxFloat32
ExactMid(c, lo, hi) ==
    (IsFinite(lo) /\ IsFinite(hi) /\ InRange(lo + hi)) => 2 * c = lo + hi
ExactDiff(d, lo, hi) ==
    (IsFinite(lo) /\ IsFinite(hi) /\ InRange(hi - lo)) => d = hi - lo

\* C12: in every box returned Center is ((MinX+MaxX)/2, (MinY+MaxY)/2,
\* (MinZ+MaxZ)/2) of the returned bounds, Dimensions() is (MaxX-MinX,
\* MaxY-MinY, MaxZ-MinZ) and Volume() is the product of the three.
C12_DerivedValues ==
    result.status = "ok" =>
        LET b == result.box
            d == Dimensions(b)
        IN /\ b.Center = Vec(Mid32(b.MinX, b.MaxX), Mid32(b.MinY, b.MaxY),
                             Mid32(b.MinZ, b.MaxZ))
           /\ ExactMid(b.Center.X, b.MinX, b.MaxX)
           /\ ExactMid(b.Center.Y, b.MinY, b.MaxY)
           /\ ExactMid(b.Center.Z, b.MinZ, b.MaxZ)
           /\ d.width = Sub32(b.MaxX, b.MinX)
           /\ d.height = Sub32(b.MaxY, b.MinY)
           /\ d.depth = Sub32(b.MaxZ, b.MinZ)
           /\ ExactDiff(d.width, b.MinX, b.MaxX)
           /\ ExactDiff(d.height, b.MinY, b.MaxY)
           /\ ExactDiff(d.depth, b.MinZ, b.MaxZ)
           /\ Volume(b) = Mul32(Mul32(d.width, d.height), d.depth)
           /\ (IsFinite(d.width) /\ IsFinite(d.height) /\ IsFinite(d.depth)
               /\ InRange(d.width * d.height) /\ InRange(d.width * d.height * d.depth))
              => Volume(b) = d.width * d.height * d.depth

\* A box of two units on every axis was returned: its centre lies between
\* two float32 values, its volume is eight.
C12_Witness ==
    /\ result.status = "ok"
    /\ result.box.MinX = -2 /\ result.box.MaxX = 0
    /\ result.box.Center = Vec(-1, 1, 1)
    /\ Dimensions(result.box) = [width |-> 2, height |-> 2, depth |-> 2]
    /\ Volume(result.box) = 8

\* The segments with those of one item that follow each other made one.
RECURSIVE Rejoin(_)
Rejoin(segs) ==
    IF Len(segs) < 2 THEN segs
    ELSE IF segs[1].item = segs[2].item /\ segs[1].hi = segs[2].lo
    THEN Rejoin(<<Seg(segs[1].item, segs[1].lo, segs[2].hi)>> \o Tail(Tail(segs)))
    ELSE <<segs[1]>> \o Rejoin(Tail(segs))

\* The number of bytes the decoder has read from the MultiReader.
DecoderOffset == r.off - Size(headerStr)

\* C13: the decoder reads the original stream: what the sniffer read and the
\* rest of the reader after it, nothing dropped and nothing twice; so that
\* parseBinary's header is bytes 0..79, its count bytes 80..83 and record i
\* begins at byte 84 + 50 i, and parseASCII's first line is the first line
\* of the stream.
C13_SniffLosesNoBytes ==
    [][/\ (pc = "sniff" /\ format' # "none") =>
              LET whole == Rejoin(headerStr' \o r'.rest)
              IN /\ \A k \in 1..Len(whole) : whole[k] = Whole(whole[k].item)
                 /\ [k \in 1..Len(whole) |-> whole[k].item] \in StreamStarts
                 /\ nlines' = Len(whole)
                 /\ Size(headerStr') = Min(HeaderSize, Size(whole))
                 /\ sniffed'.n = Size(headerStr')
                 /\ r'.off = sniffed'.n
       /\ pc' = "binCount" => DecoderOffset' = HeaderSize
       /\ pc' = "binLoop" =>
              DecoderOffset' = HeaderSize + CountSize + (TriangleSize + AttrSize) * i'
       /\ (format' = "ascii" /\ line'.no = 1) =>
              \/ line'.fields = <<>>
              \/ HasPrefix(Chars(Keyword(line'.fields)), Chars("solid"))]_vars

\* parseASCII read as its first line a line of which the sniffer had read a
\* part only.
C13_Witness ==
    /\ format = "ascii"
    /\ sniffed.n = HeaderSize
    /\ sniffed.text = Chars("solid")
    /\ line = [no |-> 1, fields |-> SolidLine.fields]
    /\ nlines = 1

InvalidVertexLine == Errorf("invalid vertex line: %s", <<>>, "nil")
TooManyVertices == Errorf("too many vertices in facet", <<>>, "nil")

\* This step of the scan loop read a line with this first word.
LineRead(word) ==
    /\ pc = "asciiScan"
    /\ line'.no = line.no + 1
    /\ Len(line'.fields) > 0
    /\ Keyword(line'.fields) = word

\* C14: a vertex line read outside a facet, or with fewer than 4 fields,
\* aborts with the invalid-vertex-line error; a vertex line (inside a facet,
\* with its 4 fields) read when the facet holds 3 vertices aborts with the
\* too-many-vertices error; no box is returned and nothing is folded; the
\* vertex count never exceeds 3.
C14_VertexLineErrors ==
    [][/\ (LineRead("vertex") /\ (~inFacet \/ Len(line'.fields) < 4)) =>
              /\ result' = InvalidVertexLine
              /\ result'.box = NilBox
              /\ pc' = "done"
              /\ bbox' = bbox /\ nfold' = nfold
       /\ (LineRead("vertex") /\ inFacet /\ Len(line'.fields) >= 4
           /\ vertexIndex >= 3) =>
              /\ result' = TooManyVertices
              /\ result'.box = NilBox
              /\ pc' = "done"
              /\ bbox' = bbox /\ nfold' = nfold
       /\ vertexIndex' \in 0..3]_vars

\* A fourth vertex line was read in a facet.
C14_Witness ==
    /\ pc = "done"
    /\ result = TooManyVertices
    /\ inFacet
    /\ vertexIndex = 3
    /\ Len(line.fields) = 4

\* This step is the end of the scan loop at the end of the input.
ScanEnds ==
    /\ pc = "asciiScan"
    /\ pc' = "done"
    /\ line'.no = line.no
    /\ r'.state = "eof"

\* C15: when the input ends inside a facet that no endfacet line closed,
\* parseASCII returns the box of the facets completed before, or the
\* no-triangles error when there was none; the pending vertices are not
\* folded.
C15_EndOfInputInFacet ==
    [][(ScanEnds /\ inFacet) =>
          /\ nfold' = nfold
          /\ result' = IF nfold = 0 THEN NoTrianglesFound
                       ELSE Ok(WithCenter(FoldSet(folded)))]_vars

\* This step of the scan loop read a line; its first word ("" when blank).
AnyLineRead == pc = "asciiScan" /\ line'.no = line.no + 1
FirstWord == IF Len(line'.fields) = 0 THEN "" ELSE Keyword(line'.fields)

\* C16: a line other than endfacet leaves the six bounds as they are, and a
\* line that is none of facet, vertex and endfacet leaves inFacet, the
\* vertex count and the pending vertices as they are too.
C16_OnlyEndfacetFolds ==
    [][/\ (AnyLineRead /\ FirstWord # "endfacet") =>
              /\ bbox' = bbox
              /\ folded' = folded
              /\ nfold' = nfold
       /\ (AnyLineRead /\ FirstWord \notin {"facet", "vertex", "endfacet"}) =>
              /\ inFacet' = inFacet
              /\ vertexIndex' = vertexIndex
              /\ currentTriangle' = currentTriangle
              /\ result' = Running
              /\ pc' = "asciiScan"]_vars

\* An "outer loop" line was read inside the second facet, after its first
\* vertex.
C16_Witness ==
    /\ pc = "asciiScan"
    /\ line.fields = OuterLine.fields
    /\ nfold = 1
    /\ bbox # SentinelBox
    /\ inFacet
    /\ vertexIndex = 1

\* C17: parseASCII returns the no-triangles error only when no triangle was
\* folded, whatever the coordinates of the folded vertices.
C17_NoTrianglesOnlyWhenNoneFolded ==
    result = NoTrianglesFound => nfold = 0

\* C18: an endfacet line read outside a facet, after a facet was closed and
\* no facet line since, is no error and leaves the box as it is: what it
\* folds again are the vertices of the facet closed last.
C18_RepeatedEndfacet ==
    [][(LineRead("endfacet") /\ ~inFacet /\ nfold >= 1) =>
          /\ vertexIndex = 3
          /\ Stored(currentTriangle) \subseteq folded
          /\ result' = Running
          /\ pc' = "asciiScan"
          /\ bbox' = bbox
          /\ folded' = folded
          /\ currentTriangle' = currentTriangle]_vars

\* The seventh line of a text is the second endfacet line of its one facet.
C18_Witness ==
    /\ pc = "asciiScan"
    /\ line.no = 7
    /\ line.fields = EndFacetLine.fields
    /\ nfold = 2
    /\ ~inFacet
    /\ bbox # SentinelBox

\* C19: parseBinary reads 84 + 50 N bytes for the count N and no byte after
\* them: it returns its box at that offset, with the stream behind it
\* unread, and is at no time beyond it.
C19_ReadsExactly ==
    /\ (format = "binary" /\ result.status = "ok") =>
           /\ DecoderOffset = 84 + 50 * numTriangles
           /\ r.off = 84 + 50 * numTriangles
           /\ headerStr = <<>>
    /\ (format = "binary" /\ (pc \in {"binLoop", "binAttr"} \/ nfold >= 1)) =>
           DecoderOffset <= 84 + 50 * numTriangles
    /\ pc = "binLoop" => DecoderOffset = 84 + 50 * i
    /\ pc = "binAttr" => DecoderOffset = 84 + 50 * i + 48

\* parseBinary returned at byte 84 of a stream that holds a byte after it.
C19_Witness ==
    /\ format = "binary"
    /\ result.status = "ok"
    /\ numTriangles = 0
    /\ r.off = 84
    /\ Size(r.rest) = 1

====
